---- MODULE Spec2Model ----
(***************************************************************************)
(* Model of the hand-written PDF assembler of ShokaiShelf:                 *)
(*   src/tmp/pdfs/generate_shokaishelf_app_summary_pdf.py      (Layout)    *)
(*   src/tmp/pdfs/generate_shokaishelf_engine_vergleich_de_pdf.py (Page)   *)
(*                                                                         *)
(* A text is a sequence of characters, a byte string a sequence of bytes.  *)
(* A character or byte is a one-character string; the characters outside   *)
(* ASCII are named by their code point ("U+00E9") and the bytes above 0x7F *)
(* by their value ("xE9").  Lengths in points (the cursor y, the margins,  *)
(* the font sizes) are counted in tenths of a point, so that 752.0 is 7520 *)
(* and 10.6 is 106: every step of both programs is a whole number of       *)
(* tenths.  The binary rounding of Page's 11.2 and 10.6 is not modelled.   *)
(***************************************************************************)
EXTENDS Integers, Sequences, FiniteSets, TLC

(***************************************************************************)
(* Sequences                                                               *)
(***************************************************************************)
Last(s) == s[Len(s)]

Front(s) == SubSeq(s, 1, Len(s) - 1)

\* s[i], or "" where the text has no character (a regex looking past an end)
At(s, i) == IF i >= 1 /\ i <= Len(s) THEN s[i] ELSE ""

RECURSIVE Concat(_)
\* ''.join(parts), the list halved at each step
Concat(parts) ==
  IF parts = <<>> THEN <<>>
  ELSE IF Len(parts) = 1 THEN parts[1]
  ELSE LET h == Len(parts) \div 2
       IN Concat(SubSeq(parts, 1, h)) \o Concat(SubSeq(parts, h + 1, Len(parts)))

\* sep.join(parts)
Join(sep, parts) ==
  Concat([i \in 1..Len(parts) |-> IF i = 1 THEN parts[i] ELSE sep \o parts[i]])

\* s[m..n], cut to the indices s has
Sub(s, m, n) == SubSeq(s, IF m < 1 THEN 1 ELSE m, IF n > Len(s) THEN Len(s) ELSE n)

\* whether k is bytes.find(sub) in buf: sub occurs at index k (from 0) and
\* at no index before it
IsFirstIndex(buf, sub, k) ==
  /\ k >= 0
  /\ Sub(buf, k + 1, k + Len(sub)) = sub
  /\ \A j \in 1..k : buf[j] = sub[1] => SubSeq(buf, j, j + Len(sub) - 1) # sub

\* buf[start : start + n] with start counted from 0
Slice(buf, start, n) == Sub(buf, start + 1, start + n)

(***************************************************************************)
(* Number formatting (str.format)                                          *)
(***************************************************************************)
DigitChars == <<"0","1","2","3","4","5","6","7","8","9">>

RECURSIVE IntStr(_)
\* f"{n}" for an int n >= 0
IntStr(n) == IF n < 10 THEN <<DigitChars[n + 1]>> ELSE IntStr(n \div 10) \o <<DigitChars[(n % 10) + 1]>>

RECURSIVE ZeroPad(_, _)
ZeroPad(s, w) == IF Len(s) >= w THEN s ELSE ZeroPad(<<"0">> \o s, w)

\* f"{off:010d}" for off >= 0: at least ten digits, zeros on the left
Fmt010d(off) == ZeroPad(IntStr(off), 10)

Abs(n) == IF n < 0 THEN -n ELSE n

\* f"{v:.1f}" of a value of t tenths
Fmt1f(t) == (IF t < 0 THEN <<"-">> ELSE <<>>) \o IntStr(Abs(t) \div 10) \o <<".">> \o <<DigitChars[(Abs(t) % 10) + 1]>>

\* f"{v:.2f}" of a value of t tenths
Fmt2f(t) == Fmt1f(t) \o <<"0">>

RECURSIVE ParseInt(_)
\* int(digits), the inverse of IntStr on digit strings
ParseInt(s) ==
  IF s = <<>> THEN 0
  ELSE 10 * ParseInt(Front(s)) + ((CHOOSE d \in 1..10 : DigitChars[d] = Last(s)) - 1)

IsDigits(s) == \A i \in 1..Len(s) : \E d \in 1..10 : DigitChars[d] = s[i]

(***************************************************************************)
(* TextEscaper                                                             *)
(***************************************************************************)
\* str.replace(old, new) for a one-character old
Replace1(text, old, new) ==
  Concat([i \in 1..Len(text) |-> IF text[i] = old THEN new ELSE <<text[i]>>])

BS == "\\"

\* a mutant: the parentheses escaped first, the backslash last
escape_parens_first(text) ==
  Replace1(Replace1(Replace1(text, "(", <<BS, "(">>), ")", <<BS, ")">>), BS, <<BS, BS>>)

escape_pdf_text(text) ==
  Replace1(Replace1(Replace1(text, BS, <<BS, BS>>), "(", <<BS, "(">>), ")", <<BS, ")">>)

esc(text) ==
  Replace1(Replace1(Replace1(text, BS, <<BS, BS>>), "(", <<BS, "(">>), ")", <<BS, ")">>)

(***************************************************************************)
(* CommandFormatter                                                        *)
(***************************************************************************)
\* Layout formats the size with "{size}": the sizes it passes are 18.0, 9.0,
\* 12.0 and 10.0, whose str() has one decimal, as "{:.1f}" gives.
text_cmd(x, yy, text, font, size) ==
  <<"B","T"," ","/">> \o font \o <<" ">> \o Fmt1f(size) \o <<" ","T","f"," ","1"," ","0"," ","0"," ","1"," ">> \o Fmt2f(x) \o <<" ">> \o Fmt2f(yy)
    \o <<" ","T","m"," ","(">> \o escape_pdf_text(text) \o <<")"," ","T","j"," ","E","T">>

txt(x, yy, text, font, size) ==
  <<"B","T"," ","/">> \o font \o <<" ">> \o Fmt1f(size) \o <<" ","T","f"," ","1"," ","0"," ","0"," ","1"," ">> \o Fmt2f(x) \o <<" ">> \o Fmt2f(yy)
    \o <<" ","T","m"," ","(">> \o esc(text) \o <<")"," ","T","j"," ","E","T">>

F1 == <<"F","1">>

F2 == <<"F","2">>

(***************************************************************************)
(* textwrap.wrap(text, width=width), as Layout.add_paragraph, add_bullets, *)
(* Page.p and Page.b call it: CPython's TextWrapper with its defaults      *)
(* (replace_whitespace, drop_whitespace, break_long_words and              *)
(* break_on_hyphens on, no indent, no max_lines).  Tabs are not among the  *)
(* characters the model draws, so expandtabs has nothing to do.  The       *)
(* chunks are kept as index ranges of the text, not as a list of strings.  *)
(***************************************************************************)
Whitespace == {" ", "\n"}

AsciiLetters ==
  {"a","b","c","d","e","f","g","h","i","j","k","l","m","n","o","p","q","r","s","t","u","v","w","x","y","z",
   "A","B","C","D","E","F","G","H","I","J","K","L","M","N","O","P","Q","R","S","T","U","V","W","X","Y","Z"}

\* e-acute is in Latin-1; U+65E5 (a CJK letter) is not
NonAsciiLetters == {"U+00E9", "U+65E5"}

IsWs(c) == c \in Whitespace

\* the regex class [^\d\W]
IsLetter(c) == c \in AsciiLetters \cup NonAsciiLetters \cup {"_"}

\* the regex class \w
IsWordChar(c) == IsLetter(c) \/ c \in {"0","1","2","3","4","5","6","7","8","9"}

\* the regex class [\w!"'&.,?]
IsWordPunct(c) == IsWordChar(c) \/ c \in {"!", "\"", "'", "&", ".", ",", "?"}

\* chunk.strip() == ''
IsBlank(chunk) == \A i \in 1..Len(chunk) : IsWs(chunk[i])

\* TextWrapper._munge_whitespace: every whitespace character becomes a space
munge_whitespace(text) == [i \in 1..Len(text) |-> IF IsWs(text[i]) THEN " " ELSE text[i]]

RECURSIVE DashRunEnd(_, _)
\* the last index of the run of hyphens that holds index i
DashRunEnd(t, i) == IF At(t, i + 1) = "-" THEN DashRunEnd(t, i + 1) ELSE i

RECURSIVE DashRunStart(_, _)
\* the first index of the run of hyphens that holds index i
DashRunStart(t, i) == IF At(t, i - 1) = "-" THEN DashRunStart(t, i - 1) ELSE i

\* the lookahead (?=-{2,}\w) at index p
EmDashAhead(t, p) ==
  /\ At(t, p) = "-"
  /\ At(t, p + 1) = "-"
  /\ IsWordChar(At(t, DashRunEnd(t, p) + 1))

\* -(?:(?<=lt{2}-)|(?<=lt-lt-))(?=lt-?lt) with the hyphen at index p
HyphenBreak(t, p) ==
  /\ At(t, p) = "-"
  /\ \/ IsLetter(At(t, p - 2)) /\ IsLetter(At(t, p - 1))
     \/ IsLetter(At(t, p - 3)) /\ At(t, p - 2) = "-" /\ IsLetter(At(t, p - 1))
  /\ IsLetter(At(t, p + 1))
  /\ \/ IsLetter(At(t, p + 2))
     \/ At(t, p + 2) = "-" /\ IsLetter(At(t, p + 3))

\* wordsep_re.split ends a chunk at index p: at the end of the text, where
\* whitespace meets a word, after the hyphen of a hyphenated word, before an
\* em-dash that follows a word, and after that em-dash
IsChunkEnd(t, p) ==
  \/ p = Len(t)
  \/ IsWs(t[p]) # IsWs(t[p + 1])
  \/ HyphenBreak(t, p)
  \/ IsWordPunct(t[p]) /\ EmDashAhead(t, p + 1)
  \/ /\ t[p] = "-" /\ IsWordChar(t[p + 1])
     /\ LET s == DashRunStart(t, p) IN s < p /\ IsWordPunct(At(t, s - 1))

\* TextWrapper._split with break_on_hyphens: the last index of every chunk
split_ends(t) == {p \in 1..Len(t) : IsChunkEnd(t, p)}

\* the last index of the chunk of the queue that starts at index i
ChunkEnd(ends, i) == CHOOSE e \in ends : e >= i /\ \A q \in i..(e - 1) : q \notin ends

\* the first index of the chunk of the line (which starts at index from) that ends at e
ChunkStart(ends, from, e) ==
  CHOOSE s \in from..e : (s = from \/ (s - 1) \in ends) /\ \A q \in s..(e - 1) : q \notin ends

\* chunk.rfind('-', 0, space_left) for the chunk that starts at index r,
\* as an index of the text (0: none)
RFindHyphen(t, r, cend, space_left) ==
  LET hits == {i \in r..(r + space_left - 1) : i <= cend /\ t[i] = "-"}
  IN IF hits = {} THEN 0 ELSE CHOOSE i \in hits : \A j \in hits : j <= i

\* a mutant: the long word is cut where the line ends, hyphens ignored
long_word_end_nohyphen(t, r, cend, space_left) == space_left

\* a mutant: the long word goes to the line whole
long_word_end_whole(t, r, cend, space_left) == cend - r + 1

\* TextWrapper._handle_long_word, break_long_words on: how many characters
\* of the chunk t[r..cend], too long for any line, go to the current line
long_word_end(t, r, cend, space_left) ==
  LET hyphen == RFindHyphen(t, r, cend, space_left)
  IN IF /\ cend - r + 1 > space_left
        /\ hyphen > r
        /\ \E i \in r..(hyphen - 1) : t[i] # "-"
     THEN hyphen - r + 1
     ELSE space_left

\* a mutant: a line takes chunks up to one character more than the width
fill_end_over(ends, from, width) ==
  LET fits == {e \in ends : e >= from /\ e - from + 1 <= width + 1}
  IN IF fits = {} THEN from - 1 ELSE CHOOSE e \in fits : \A f \in fits : f <= e

\* the inner while of _wrap_chunks: chunks move to the line while they fit;
\* the last index of the last chunk that does (from - 1: none does)
fill_end(ends, from, width) ==
  LET fits == {e \in ends : e >= from /\ e - from + 1 <= width}
  IN IF fits = {} THEN from - 1 ELSE CHOOSE e \in fits : \A f \in fits : f <= e

\* a mutant: the whitespace that ends a line is kept
drop_last_whitespace_kept(t, ends, from, filled) == filled

\* "if self.drop_whitespace and cur_line and cur_line[-1].strip() == ''" for a
\* line t[from..filled] of whole chunks: the last index of the line once its
\* last chunk, when that is whitespace, is dropped
drop_last_whitespace(t, ends, from, filled) ==
  IF filled >= from /\ IsWs(t[filled]) THEN ChunkStart(ends, from, filled) - 1 ELSE filled

RECURSIVE WrapLoop(_, _, _, _, _)
\* the outer while of _wrap_chunks: the queue of chunks is t[pos..]
WrapLoop(t, ends, pos, lines, width) ==
  IF pos > Len(t) THEN lines
  ELSE
    LET \* a whitespace chunk first on a line is dropped, but not on the first line
        from == IF IsWs(t[pos]) /\ lines # <<>> THEN ChunkEnd(ends, pos) + 1 ELSE pos
        filled == fill_end(ends, from, width)
        cur_len == filled - from + 1
        r == filled + 1
        long == r <= Len(t) /\ ChunkEnd(ends, r) - r + 1 > width
        taken == IF long THEN long_word_end(t, r, ChunkEnd(ends, r), width - cur_len) ELSE 0
        \* after _handle_long_word the last chunk of the line is the piece it
        \* took: dropped when it is whitespace, or empty (nothing taken)
        line_end ==
          IF long
          THEN IF taken > 0 /\ ~IsWs(t[r]) THEN r + taken - 1 ELSE filled
          ELSE drop_last_whitespace(t, ends, from, filled)
    IN WrapLoop(t, ends, r + taken,
                IF line_end >= from THEN Append(lines, SubSeq(t, from, line_end)) ELSE lines,
                width)

\* a mutant: whitespace is not replaced, a line feed stays in the text
wrap_raw(text, width) == WrapLoop(text, split_ends(text), 1, <<>>, width)

\* textwrap.wrap(text, width=width), for width > 0
wrap(text, width) ==
  LET t == munge_whitespace(text) IN WrapLoop(t, split_ends(t), 1, <<>>, width)

(***************************************************************************)
(* The single byte output encoding                                         *)
(***************************************************************************)
\* one character under .encode("latin-1", errors="replace"): a character of
\* Latin-1 is its one byte, any other character is the byte of "?"
Latin1Byte(c) ==
  CASE c = "U+00E9" -> "xE9"
    [] c = "U+65E5" -> "?"
    [] OTHER -> c

\* a mutant: errors="ignore", a character outside Latin-1 is left out
encode_latin1_ignore(s) ==
  Concat([i \in 1..Len(s) |-> IF s[i] = "U+65E5" THEN <<>> ELSE <<Latin1Byte(s[i])>>])

encode_latin1(s) == [i \in 1..Len(s) |-> Latin1Byte(s[i])]

(***************************************************************************)
(* ObjectGraphBuilder and BinarySerializer                                 *)
(***************************************************************************)
PdfHeader == <<"%","P","D","F","-","1",".","4","\n","%">> \o <<"xE2", "xE3", "xCF", "xD3", "\n">>

CatalogBody == <<"<","<"," ","/","T","y","p","e"," ","/","C","a","t","a","l","o","g"," ","/","P","a","g","e","s"," ","2"," ","0"," ","R"," ",">",">">>

PagesBody == <<"<","<"," ","/","T","y","p","e"," ","/","P","a","g","e","s"," ","/","K","i","d","s"," ","[","3"," ","0"," ","R","]"," ","/","C","o","u","n","t"," ","1"," ",">",">">>

PageBody ==
  <<"<","<"," ","/","T","y","p","e"," ","/","P","a","g","e"," ","/","P","a","r","e","n","t"," ","2"," ","0"," ","R"," ","/","M","e","d","i","a","B","o","x"," ","[","0"," ","0"," ","6","1","2"," ","7","9","2","]"," ">>
    \o <<"/","R","e","s","o","u","r","c","e","s"," ","<","<"," ","/","F","o","n","t"," ","<","<"," ","/","F","1"," ","4"," ","0"," ","R"," ","/","F","2"," ","5"," ","0"," ","R"," ",">",">"," ",">",">"," ","/","C","o","n","t","e","n","t","s"," ","6"," ","0"," ","R"," ",">",">">>

Font1Body == <<"<","<"," ","/","T","y","p","e"," ","/","F","o","n","t"," ","/","S","u","b","t","y","p","e"," ","/","T","y","p","e","1"," ","/","B","a","s","e","F","o","n","t"," ","/","H","e","l","v","e","t","i","c","a"," ",">",">">>

Font2Body == <<"<","<"," ","/","T","y","p","e"," ","/","F","o","n","t"," ","/","S","u","b","t","y","p","e"," ","/","T","y","p","e","1"," ","/","B","a","s","e","F","o","n","t"," ","/","H","e","l","v","e","t","i","c","a","-","B","o","l","d"," ",">",">">>

\* a mutant: the length of the stream counted with its "endstream" keyword
stream_object_long(stream) ==
  encode_latin1(<<"<","<"," ","/","L","e","n","g","t","h"," ">> \o IntStr(Len(stream) + 9) \o <<" ",">",">","\n","s","t","r","e","a","m","\n">>) \o stream \o <<"e","n","d","s","t","r","e","a","m">>

\* object 6: f"<< /Length {len(stream)} >>\nstream\n".encode("latin-1") + stream + b"endstream"
stream_object(stream) ==
  encode_latin1(<<"<","<"," ","/","L","e","n","g","t","h"," ">> \o IntStr(Len(stream)) \o <<" ",">",">","\n","s","t","r","e","a","m","\n">>) \o stream \o <<"e","n","d","s","t","r","e","a","m">>

\* a mutant: a seventh object, a second content stream
write_pdf_objects_seven(stream) ==
  <<CatalogBody, PagesBody, PageBody, Font1Body, Font2Body, stream_object(stream), stream_object(stream)>>

\* the objects list of write_pdf
write_pdf_objects(stream) ==
  <<CatalogBody, PagesBody, PageBody, Font1Body, Font2Body, stream_object(stream)>>

\* the objs list of the engine report's main
main_objs(stream) ==
  <<CatalogBody, PagesBody, PageBody, Font1Body, Font2Body,
    encode_latin1(<<"<","<"," ","/","L","e","n","g","t","h"," ">> \o IntStr(Len(stream)) \o <<" ",">",">","\n","s","t","r","e","a","m","\n">>) \o stream \o <<"e","n","d","s","t","r","e","a","m">>>>

\* a mutant: the offset taken after the "N 0 obj" line is written
emit_object_late(buf, offs, idx, obj) ==
  LET head == encode_latin1(IntStr(idx) \o <<" ","0"," ","o","b","j","\n">>)
  IN [pdf |-> buf \o head \o obj \o <<"\n","e","n","d","o","b","j","\n">>, offsets |-> Append(offs, Len(buf) + Len(head))]

\* write_pdf: one turn of the loop over enumerate(objects, start=1)
emit_object(buf, offs, idx, obj) ==
  [pdf |-> buf \o encode_latin1(IntStr(idx) \o <<" ","0"," ","o","b","j","\n">>) \o obj \o <<"\n","e","n","d","o","b","j","\n">>,
   offsets |-> Append(offs, Len(buf))]

RECURSIVE write_pdf_loop(_, _, _, _)
\* write_pdf: for idx, obj in enumerate(objects, start=1)
write_pdf_loop(buf, offs, idx, objs) ==
  IF idx > Len(objs) THEN [pdf |-> buf, offsets |-> offs]
  ELSE LET e == emit_object(buf, offs, idx, objs[idx])
       IN write_pdf_loop(e.pdf, e.offsets, idx + 1, objs)

\* a mutant: build_pdf closes an object without the line feed before endobj
build_pdf_emit_short(out, offs, i, obj) ==
  [pdf |-> out \o encode_latin1(IntStr(i) \o <<" ","0"," ","o","b","j","\n">>) \o obj \o <<"e","n","d","o","b","j","\n">>,
   offsets |-> Append(offs, Len(out))]

\* build_pdf: one turn of the loop over enumerate(objects, start=1)
build_pdf_emit(out, offs, i, obj) ==
  [pdf |-> out \o encode_latin1(IntStr(i) \o <<" ","0"," ","o","b","j","\n">>) \o obj \o <<"\n","e","n","d","o","b","j","\n">>,
   offsets |-> Append(offs, Len(out))]

RECURSIVE build_pdf_loop(_, _, _, _)
\* build_pdf: for i, obj in enumerate(objects, start=1)
build_pdf_loop(out, offs, i, objs) ==
  IF i > Len(objs) THEN [pdf |-> out, offsets |-> offs]
  ELSE LET e == build_pdf_emit(out, offs, i, objs[i])
       IN build_pdf_loop(e.pdf, e.offsets, i + 1, objs)

RECURSIVE build_pdf_xref_entries(_)
\* build_pdf: for off in offsets[1:]: f"{off:010d} 00000 n \n"
build_pdf_xref_entries(offs) ==
  IF offs = <<>> THEN <<>>
  ELSE encode_latin1(Fmt010d(Head(offs)) \o <<" ","0","0","0","0","0"," ","n"," ","\n">>) \o build_pdf_xref_entries(Tail(offs))

\* build_pdf: the cross-reference table and the trailer, appended to out
build_pdf_tail(out, offs, n) ==
  [pdf |-> out
           \o encode_latin1(<<"x","r","e","f","\n","0"," ">> \o IntStr(n + 1) \o <<"\n">>)
           \o <<"0","0","0","0","0","0","0","0","0","0"," ","6","5","5","3","5"," ","f"," ","\n">>
           \o build_pdf_xref_entries(Tail(offs))
           \o encode_latin1(<<"t","r","a","i","l","e","r","\n","<","<"," ","/","S","i","z","e"," ">> \o IntStr(n + 1) \o <<" ","/","R","o","o","t"," ","1"," ","0"," ","R"," ",">",">","\n","s","t","a","r","t","x","r","e","f","\n">>
                            \o IntStr(Len(out)) \o <<"\n","%","%","E","O","F","\n">>),
   xref_pos |-> Len(out)]

RECURSIVE xref_entries(_)
\* write_pdf: for off in offsets[1:]: f"{off:010d} 00000 n \n"
xref_entries(offs) ==
  IF offs = <<>> THEN <<>>
  ELSE encode_latin1(Fmt010d(Head(offs)) \o <<" ","0","0","0","0","0"," ","n"," ","\n">>) \o xref_entries(Tail(offs))

\* a mutant: startxref names the end of the cross-reference table
xref_and_trailer_late(buf, offs, n) ==
  LET table == encode_latin1(<<"x","r","e","f","\n","0"," ">> \o IntStr(n + 1) \o <<"\n">>)
                 \o <<"0","0","0","0","0","0","0","0","0","0"," ","6","5","5","3","5"," ","f"," ","\n">> \o xref_entries(Tail(offs))
  IN [pdf |-> buf \o table
              \o encode_latin1(<<"t","r","a","i","l","e","r","\n","<","<"," ","/","S","i","z","e"," ">> \o IntStr(n + 1) \o <<" ","/","R","o","o","t"," ","1"," ","0"," ","R"," ",">",">","\n","s","t","a","r","t","x","r","e","f","\n">>
                               \o IntStr(Len(buf) + Len(table)) \o <<"\n","%","%","E","O","F","\n">>),
      xref_pos |-> Len(buf) + Len(table)]

\* write_pdf: the cross-reference table and the trailer, appended to pdf (n objects)
xref_and_trailer(buf, offs, n) ==
  [pdf |-> buf
           \o encode_latin1(<<"x","r","e","f","\n","0"," ">> \o IntStr(n + 1) \o <<"\n">>)
           \o <<"0","0","0","0","0","0","0","0","0","0"," ","6","5","5","3","5"," ","f"," ","\n">>
           \o xref_entries(Tail(offs))
           \o encode_latin1(<<"t","r","a","i","l","e","r","\n","<","<"," ","/","S","i","z","e"," ">> \o IntStr(n + 1) \o <<" ","/","R","o","o","t"," ","1"," ","0"," ","R"," ",">",">","\n","s","t","a","r","t","x","r","e","f","\n">>
                            \o IntStr(Len(buf)) \o <<"\n","%","%","E","O","F","\n">>),
   xref_pos |-> Len(buf)]

\* write_pdf up to its last pdf.extend: the buffer, the offsets and xref_pos
write_pdf_buffer(stream) ==
  LET objs == write_pdf_objects(stream)
      body == write_pdf_loop(PdfHeader, <<0>>, 1, objs)
      tail == xref_and_trailer(body.pdf, body.offsets, Len(objs))
  IN [objects |-> objs, pdf |-> tail.pdf, offsets |-> body.offsets, xref_pos |-> tail.xref_pos]

\* build_pdf(objects): the bytes it returns, with its offsets and xref
build_pdf(objs) ==
  LET body == build_pdf_loop(PdfHeader, <<0>>, 1, objs)
      tail == build_pdf_tail(body.pdf, body.offsets, Len(objs))
  IN [objects |-> objs, pdf |-> tail.pdf, offsets |-> body.offsets, xref_pos |-> tail.xref_pos]

\* build_pdf_stream, and the stream line of the engine report's main:
\* ("\n".join(commands) + "\n").encode("latin-1", errors="replace")
build_pdf_stream(cmds) == encode_latin1(Join(<<"\n">>, cmds) \o <<"\n">>)

(***************************************************************************)
(* Bounds and inputs                                                       *)
(***************************************************************************)
\* placement calls in one layout pass
MaxCalls == 3

\* lines of a tall bullet item (words of one letter at width 1)
TallLines == 14

\* objects in a list given to build_pdf directly
MaxObjects == 3

RECURSIVE Words(_, _)
\* n copies of word, joined by single spaces
Words(word, n) == IF n = 0 THEN <<>> ELSE IF n = 1 THEN word ELSE word \o <<" ">> \o Words(word, n - 1)

TallText == Words(<<"a">>, TallLines)

\* parentheses, a backslash, a Latin-1 letter and a letter outside Latin-1
MixedText == <<"R", "(", BS, ")", "U+00E9", "U+65E5">>

\* several words, a run of spaces, a hyphenated word and a parenthesis
ShortText == <<"a","b"," "," "," ","c"," ","(","d","e","-","f","g",")">>

NoCall == [op |-> "none", text |-> <<>>, items |-> <<>>, width |-> 0]

TitleArgs == {MixedText}

SubtitleArgs == {MixedText}

HeadingArgs == {<<>>}

ParagraphArgs == {[text |-> <<>>, width |-> 98], [text |-> ShortText, width |-> 4]}

\* no item; items that wrap to nothing among items that wrap to several
\* lines; four tall items, which take most of the page
BulletArgs ==
  {[items |-> <<>>, width |-> 92],
   [items |-> <<<<>>, <<" ">>, ShortText, MixedText>>, width |-> 5],
   [items |-> <<TallText, TallText, TallText, TallText>>, width |-> 1]}

\* bodies of objects given to build_pdf directly: an empty body, a byte, and
\* a body that spells the header of object 2
ObjectBodies == {<<>>, <<"x">>, <<"2"," ","0"," ","o","b","j">>}

RECURSIVE ListsUpTo(_, _)
\* the lists over S of length at most n
ListsUpTo(S, n) ==
  IF n = 0 THEN {<<>>}
  ELSE LET shorter == ListsUpTo(S, n - 1)
       IN shorter \cup {Append(l, x) : l \in {m \in shorter : Len(m) = n - 1}, x \in S}

(***************************************************************************)
(* State                                                                   *)
(***************************************************************************)
VARIABLES
  prog,            \* "app_summary" | "engine_vergleich": the script that runs;
                   \* "build_pdf": a call of build_pdf(objects) on its own;
                   \* "escape", "wrap": a call of the pure function
  pc,              \* the position in the script
  y,               \* Layout.y / Page.y, in tenths of a point
  commands,        \* Layout.commands / Page.commands
  ncalls,          \* placement calls made
  lastCall,        \* the last placement call and its arguments
  content_stream,  \* content_stream / stream
  objects,         \* the objects list
  pdf,             \* the buffer pdf / out
  offsets,         \* offsets
  xref_pos,        \* xref_pos / xref
  made_dirs,       \* os.makedirs has run
  file,            \* the bytes of the output file, NoFile while it is not opened
  err,             \* the exception that ended the run, "none" while there is none
  arg_text,        \* the text argument of a pure function call
  arg_width,       \* the width argument of a wrap call
  result,          \* what the pure function returned
  result2,         \* what the second call returned
  watch_list,      \* the rows of table watch_list, in rowid order
  buy_list,        \* the rows of table buy_list, in rowid order
  watch_seq,       \* sqlite_sequence of watch_list: the largest id given so far
  buy_seq,         \* sqlite_sequence of buy_list
  db_call,         \* the last call made on the connection, with its arguments
  db_calls         \* calls made on the connection

vars ==
  <<prog, pc, y, commands, ncalls, lastCall, content_stream, objects, pdf, offsets,
    xref_pos, made_dirs, file, err, arg_text, arg_width, result, result2,
    watch_list, buy_list, watch_seq, buy_seq, db_call, db_calls>>

layoutVars == <<y, commands, ncalls, lastCall>>

serialVars == <<content_stream, objects, pdf, offsets, xref_pos>>

fsVars == <<made_dirs, file>>

pureVars == <<arg_text, arg_width, result, result2>>

dbVars == <<watch_list, buy_list, watch_seq, buy_seq, db_call, db_calls>>

NoFile == <<"NOFILE">>

NoDbCall == [op |-> "none", title |-> [t |-> "null", v |-> ""], list_name |-> ""]

\* create_database_schema on a new database: both tables empty, no id given
EmptyDb ==
  /\ watch_list = <<>> /\ buy_list = <<>> /\ watch_seq = 0 /\ buy_seq = 0
  /\ db_call = NoDbCall /\ db_calls = 0

\* everything but prog, pc and what the entry point sets
InitRest ==
  /\ commands = <<>>
  /\ ncalls = 0
  /\ lastCall = NoCall
  /\ content_stream = <<>>
  /\ pdf = <<>>
  /\ offsets = <<>>
  /\ xref_pos = 0
  /\ made_dirs = FALSE
  /\ file = NoFile
  /\ err = "none"
  /\ arg_text = <<>>
  /\ arg_width = 0
  /\ result = <<>>
  /\ result2 = <<>>
  /\ EmptyDb

\* Layout.__init__
Layout_y == 7520

Layout_left == 540

body_size == 100

body_leading == 120

\* Page.__init__
Page_y == 7700

Page_left == 420

\* main() of the app summary: layout = Layout()
InitLayout == prog = "app_summary" /\ pc = "layout" /\ y = Layout_y /\ objects = <<>> /\ InitRest

\* main() of the engine report: p = Page()
InitPage == prog = "engine_vergleich" /\ pc = "layout" /\ y = Page_y /\ objects = <<>> /\ InitRest

\* build_pdf(objects), called with a list of its caller's choice
InitBuildPdf ==
  /\ prog = "build_pdf" /\ pc = "objs" /\ y = 0
  /\ objects \in ListsUpTo(ObjectBodies, MaxObjects)
  /\ InitRest

Init == InitLayout \/ InitPage \/ InitBuildPdf

(***************************************************************************)
(* LayoutEngine: class Layout                                              *)
(***************************************************************************)
CanPlace(p) == prog = p /\ pc = "layout" /\ ncalls < MaxCalls

Placed(op, text, items, width) ==
  /\ ncalls' = ncalls + 1
  /\ lastCall' = [op |-> op, text |-> text, items |-> items, width |-> width]
  /\ UNCHANGED <<prog, pc, serialVars, fsVars, err, pureVars, dbVars>>

\* a mutant: the title does not move the cursor
add_title_still(text) ==
  /\ CanPlace("app_summary")
  /\ commands' = Append(commands, text_cmd(Layout_left, y, text, F2, 180))
  /\ y' = y
  /\ Placed("add_title", text, <<>>, 0)

add_title(text) ==
  /\ CanPlace("app_summary")
  /\ commands' = Append(commands, text_cmd(Layout_left, y, text, F2, 180))
  /\ y' = y - 200
  /\ Placed("add_title", text, <<>>, 0)

add_subtitle(text) ==
  /\ CanPlace("app_summary")
  /\ commands' = Append(commands, text_cmd(Layout_left, y, text, F1, 90))
  /\ y' = y - 160
  /\ Placed("add_subtitle", text, <<>>, 0)

add_heading(text) ==
  /\ CanPlace("app_summary")
  /\ commands' = Append(commands, text_cmd(Layout_left, y, text, F2, 120))
  /\ y' = y - 140
  /\ Placed("add_heading", text, <<>>, 0)

RECURSIVE Layout_lines(_, _, _, _)
\* for line in lines: append a command at x, then y -= body_leading
Layout_lines(cmds, yy, x, lines) ==
  IF lines = <<>> THEN [commands |-> cmds, y |-> yy]
  ELSE Layout_lines(Append(cmds, text_cmd(x, yy, Head(lines), F1, body_size)),
                    yy - body_leading, x, Tail(lines))

\* a mutant: the gap after the paragraph is left out
add_paragraph_nogap(text, width) ==
  LET r == Layout_lines(commands, y, Layout_left, wrap(text, width))
  IN /\ CanPlace("app_summary")
     /\ commands' = r.commands
     /\ y' = r.y
     /\ Placed("add_paragraph", text, <<>>, width)

add_paragraph(text, width) ==
  LET r == Layout_lines(commands, y, Layout_left, wrap(text, width))
  IN /\ CanPlace("app_summary")
     /\ commands' = r.commands
     /\ y' = r.y - 40
     /\ Placed("add_paragraph", text, <<>>, width)

RECURSIVE Layout_items_noindent(_, _, _, _)
\* a mutant: the continuation lines of an item are not indented
Layout_items_noindent(cmds, yy, items, width) ==
  IF items = <<>> THEN [commands |-> cmds, y |-> yy]
  ELSE
    LET wrapped == wrap(Head(items), width)
    IN IF wrapped = <<>> THEN Layout_items_noindent(cmds, yy, Tail(items), width)
       ELSE
         LET first == Append(cmds, text_cmd(Layout_left, yy, <<"-", " ">> \o wrapped[1], F1, body_size))
             rest == Layout_lines(first, yy - body_leading, Layout_left, Tail(wrapped))
         IN Layout_items_noindent(rest.commands, rest.y, Tail(items), width)

RECURSIVE Layout_items(_, _, _, _)
\* for item in items: of add_bullets
Layout_items(cmds, yy, items, width) ==
  IF items = <<>> THEN [commands |-> cmds, y |-> yy]
  ELSE
    LET wrapped == wrap(Head(items), width)
    IN IF wrapped = <<>> THEN Layout_items(cmds, yy, Tail(items), width)
       ELSE
         LET first == Append(cmds, text_cmd(Layout_left, yy, <<"-", " ">> \o wrapped[1], F1, body_size))
             rest == Layout_lines(first, yy - body_leading, Layout_left + 120, Tail(wrapped))
         IN Layout_items(rest.commands, rest.y, Tail(items), width)

\* a mutant: the placement checks the fit itself and raises on overflow
add_bullets_checked(items, width) ==
  LET r == Layout_items(commands, y, items, width)
  IN /\ CanPlace("app_summary")
     /\ commands' = r.commands
     /\ y' = r.y - 40
     /\ ncalls' = ncalls + 1
     /\ lastCall' = [op |-> "add_bullets", text |-> <<>>, items |-> items, width |-> width]
     /\ IF r.y - 40 < 420
        THEN pc' = "failed" /\ err' = "RuntimeError"
        ELSE pc' = pc /\ err' = err
     /\ UNCHANGED <<prog, serialVars, fsVars, pureVars, dbVars>>

add_bullets(items, width) ==
  LET r == Layout_items(commands, y, items, width)
  IN /\ CanPlace("app_summary")
     /\ commands' = r.commands
     /\ y' = r.y - 40
     /\ Placed("add_bullets", <<>>, items, width)

\* a mutant: check_fit never raises
check_fit_silent ==
  /\ prog = "app_summary" /\ pc = "layout"
  /\ pc' = "checked"
  /\ UNCHANGED <<prog, layoutVars, serialVars, fsVars, err, pureVars, dbVars>>

\* a mutant: a cursor on the threshold counts as overflow
check_fit_strict ==
  /\ prog = "app_summary" /\ pc = "layout"
  /\ IF y <= 420
     THEN pc' = "failed" /\ err' = "RuntimeError"
     ELSE pc' = "checked" /\ err' = err
  /\ UNCHANGED <<prog, layoutVars, serialVars, fsVars, pureVars, dbVars>>

check_fit ==
  /\ prog = "app_summary" /\ pc = "layout"
  /\ IF y < 420
     THEN pc' = "failed" /\ err' = "RuntimeError"
     ELSE pc' = "checked" /\ err' = err
  /\ UNCHANGED <<prog, layoutVars, serialVars, fsVars, pureVars, dbVars>>

(***************************************************************************)
(* LayoutEngine: class Page                                                *)
(***************************************************************************)
Page_title(s) ==
  /\ CanPlace("engine_vergleich")
  /\ commands' = Append(commands, txt(Page_left, y, s, F2, 160))
  /\ y' = y - 180
  /\ Placed("title", s, <<>>, 0)

Page_sub(s) ==
  /\ CanPlace("engine_vergleich")
  /\ commands' = Append(commands, txt(Page_left, y, s, F1, 84))
  /\ y' = y - 140
  /\ Placed("sub", s, <<>>, 0)

Page_h(s) ==
  /\ CanPlace("engine_vergleich")
  /\ commands' = Append(commands, txt(Page_left, y, s, F2, 104))
  /\ y' = y - 112
  /\ Placed("h", s, <<>>, 0)

RECURSIVE Page_lines(_, _, _, _)
\* for line in lines: append a command at x (font F1, size 9.2), then y -= 10.6
Page_lines(cmds, yy, x, lines) ==
  IF lines = <<>> THEN [commands |-> cmds, y |-> yy]
  ELSE Page_lines(Append(cmds, txt(x, yy, Head(lines), F1, 92)), yy - 106, x, Tail(lines))

Page_p(s, width) ==
  LET r == Page_lines(commands, y, Page_left, wrap(s, width))
  IN /\ CanPlace("engine_vergleich")
     /\ commands' = r.commands
     /\ y' = r.y - 20
     /\ Placed("p", s, <<>>, width)

RECURSIVE Page_items(_, _, _, _)
\* for item in items: of Page.b
Page_items(cmds, yy, items, width) ==
  IF items = <<>> THEN [commands |-> cmds, y |-> yy]
  ELSE
    LET lines == wrap(Head(items), width)
    IN IF lines = <<>> THEN Page_items(cmds, yy, Tail(items), width)
       ELSE
         LET first == Append(cmds, txt(Page_left, yy, <<"-", " ">> \o lines[1], F1, 92))
             rest == Page_lines(first, yy - 106, Page_left + 100, Tail(lines))
         IN Page_items(rest.commands, rest.y, Tail(items), width)

Page_b(items, width) ==
  LET r == Page_items(commands, y, items, width)
  IN /\ CanPlace("engine_vergleich")
     /\ commands' = r.commands
     /\ y' = r.y - 20
     /\ Placed("b", <<>>, items, width)

Page_check ==
  /\ prog = "engine_vergleich" /\ pc = "layout"
  /\ IF y < 380
     THEN pc' = "failed" /\ err' = "RuntimeError"
     ELSE pc' = "checked" /\ err' = err
  /\ UNCHANGED <<prog, layoutVars, serialVars, fsVars, pureVars, dbVars>>

(***************************************************************************)
(* main() of the app summary after the layout, and write_pdf               *)
(***************************************************************************)
\* content_stream = build_pdf_stream(layout)
main_build_pdf_stream ==
  /\ prog = "app_summary" /\ pc = "checked"
  /\ content_stream' = build_pdf_stream(commands)
  /\ pc' = "streamed"
  /\ UNCHANGED <<prog, layoutVars, objects, pdf, offsets, xref_pos, fsVars, err, pureVars, dbVars>>

\* write_pdf up to its last pdf.extend
write_pdf_assemble ==
  LET w == write_pdf_buffer(content_stream)
  IN /\ prog = "app_summary" /\ pc = "streamed"
     /\ objects' = w.objects
     /\ pdf' = w.pdf
     /\ offsets' = w.offsets
     /\ xref_pos' = w.xref_pos
     /\ pc' = "built"
     /\ UNCHANGED <<prog, layoutVars, content_stream, fsVars, err, pureVars, dbVars>>

\* os.makedirs(os.path.dirname(path), exist_ok=True): done, or OSError
write_pdf_makedirs ==
  /\ prog = "app_summary" /\ pc = "built"
  /\ \/ made_dirs' = TRUE /\ pc' = "dirs" /\ err' = err
     \/ made_dirs' = made_dirs /\ pc' = "failed" /\ err' = "OSError"
  /\ UNCHANGED <<prog, layoutVars, serialVars, file, pureVars, dbVars>>

\* with open(path, "wb") as f: f.write(pdf): written, or open raises OSError
write_pdf_write ==
  /\ prog = "app_summary" /\ pc = "dirs"
  /\ \/ file' = pdf /\ pc' = "done" /\ err' = err
     \/ file' = file /\ pc' = "failed" /\ err' = "OSError"
  /\ UNCHANGED <<prog, layoutVars, serialVars, made_dirs, pureVars, dbVars>>

(***************************************************************************)
(* main() of the engine report after the layout, and build_pdf             *)
(***************************************************************************)
\* stream = ("\n".join(p.commands) + "\n").encode("latin-1", errors="replace")
Page_main_stream ==
  /\ prog = "engine_vergleich" /\ pc = "checked"
  /\ content_stream' = build_pdf_stream(commands)
  /\ pc' = "streamed"
  /\ UNCHANGED <<prog, layoutVars, objects, pdf, offsets, xref_pos, fsVars, err, pureVars, dbVars>>

\* objs = [...]
Page_main_objs ==
  /\ prog = "engine_vergleich" /\ pc = "streamed"
  /\ objects' = main_objs(content_stream)
  /\ pc' = "objs"
  /\ UNCHANGED <<prog, layoutVars, content_stream, pdf, offsets, xref_pos, fsVars, err, pureVars, dbVars>>

\* pdf = build_pdf(objs), and build_pdf(objects) called on its own
build_pdf_call ==
  LET b == build_pdf(objects)
  IN /\ prog \in {"engine_vergleich", "build_pdf"} /\ pc = "objs"
     /\ pdf' = b.pdf
     /\ offsets' = b.offsets
     /\ xref_pos' = b.xref_pos
     /\ pc' = IF prog = "build_pdf" THEN "returned" ELSE "built"
     /\ UNCHANGED <<prog, layoutVars, content_stream, objects, fsVars, err, pureVars, dbVars>>

Page_main_makedirs ==
  /\ prog = "engine_vergleich" /\ pc = "built"
  /\ \/ made_dirs' = TRUE /\ pc' = "dirs" /\ err' = err
     \/ made_dirs' = made_dirs /\ pc' = "failed" /\ err' = "OSError"
  /\ UNCHANGED <<prog, layoutVars, serialVars, file, pureVars, dbVars>>

Page_main_write ==
  /\ prog = "engine_vergleich" /\ pc = "dirs"
  /\ \/ file' = pdf /\ pc' = "done" /\ err' = err
     \/ file' = file /\ pc' = "failed" /\ err' = "OSError"
  /\ UNCHANGED <<prog, layoutVars, serialVars, made_dirs, pureVars, dbVars>>

(***************************************************************************)
(* The two programs, and build_pdf on its own                              *)
(***************************************************************************)
Next ==
  \/ \E t \in TitleArgs : add_title(t)
  \/ \E t \in SubtitleArgs : add_subtitle(t)
  \/ \E t \in HeadingArgs : add_heading(t)
  \/ \E a \in ParagraphArgs : add_paragraph(a.text, a.width)
  \/ \E a \in BulletArgs : add_bullets(a.items, a.width)
  \/ check_fit
  \/ main_build_pdf_stream
  \/ write_pdf_assemble
  \/ write_pdf_makedirs
  \/ write_pdf_write
  \/ \E t \in TitleArgs : Page_title(t)
  \/ \E t \in SubtitleArgs : Page_sub(t)
  \/ \E t \in HeadingArgs : Page_h(t)
  \/ \E a \in ParagraphArgs : Page_p(a.text, a.width)
  \/ \E a \in BulletArgs : Page_b(a.items, a.width)
  \/ Page_check
  \/ Page_main_stream
  \/ Page_main_objs
  \/ build_pdf_call
  \/ Page_main_makedirs
  \/ Page_main_write

Spec == Init /\ [][Next]_vars

(***************************************************************************)
(* The escapers called on their own                                        *)
(***************************************************************************)
\* characters of a text given to the escapers
MaxEscLen == 4

EscAlphabet == {"a", BS, "(", ")"}

InitEscape ==
  /\ prog = "escape" /\ pc = "call" /\ y = 0 /\ objects = <<>>
  /\ commands = <<>> /\ ncalls = 0 /\ lastCall = NoCall /\ content_stream = <<>>
  /\ pdf = <<>> /\ offsets = <<>> /\ xref_pos = 0 /\ made_dirs = FALSE /\ file = NoFile
  /\ err = "none" /\ arg_width = 0 /\ result = <<>> /\ result2 = <<>> /\ EmptyDb
  /\ arg_text \in ListsUpTo(EscAlphabet, MaxEscLen)

\* result = escape_pdf_text(text)
escape_pdf_text_call ==
  /\ prog = "escape" /\ pc = "call"
  /\ result' = escape_pdf_text(arg_text)
  /\ pc' = "escaped"
  /\ UNCHANGED <<prog, layoutVars, serialVars, fsVars, err, arg_text, arg_width, result2, dbVars>>

\* result2 = esc(text)
esc_call ==
  /\ prog = "escape" /\ pc = "escaped"
  /\ result2' = esc(arg_text)
  /\ pc' = "returned"
  /\ UNCHANGED <<prog, layoutVars, serialVars, fsVars, err, arg_text, arg_width, result, dbVars>>

NextEscape == escape_pdf_text_call \/ esc_call

SpecEscape == InitEscape /\ [][NextEscape]_vars

(***************************************************************************)
(* textwrap.wrap called on its own, and on the lines it returned           *)
(***************************************************************************)
\* characters of a text given to wrap
MaxWrapLen == 6

\* the widest wrap width tried
MaxWrapWidth == 4

WrapAlphabet == {"a", " ", "-"}

InitWrap ==
  /\ prog = "wrap" /\ pc = "call" /\ y = 0 /\ objects = <<>>
  /\ commands = <<>> /\ ncalls = 0 /\ lastCall = NoCall /\ content_stream = <<>>
  /\ pdf = <<>> /\ offsets = <<>> /\ xref_pos = 0 /\ made_dirs = FALSE /\ file = NoFile
  /\ err = "none" /\ result = <<>> /\ result2 = <<>> /\ EmptyDb
  /\ arg_text \in ListsUpTo(WrapAlphabet, MaxWrapLen)
  /\ arg_width \in 1..MaxWrapWidth

\* result = textwrap.wrap(text, width=width)
wrap_call ==
  /\ prog = "wrap" /\ pc = "call"
  /\ result' = wrap(arg_text, arg_width)
  /\ pc' = "wrapped"
  /\ UNCHANGED <<prog, layoutVars, serialVars, fsVars, err, arg_text, arg_width, result2, dbVars>>

\* result2 = textwrap.wrap(" ".join(result), width=width)
rewrap_call ==
  /\ prog = "wrap" /\ pc = "wrapped"
  /\ result2' = wrap(Join(<<" ">>, result), arg_width)
  /\ pc' = "rewrapped"
  /\ UNCHANGED <<prog, layoutVars, serialVars, fsVars, err, arg_text, arg_width, result, dbVars>>

NextWrap == wrap_call \/ rewrap_call

SpecWrap == InitWrap /\ [][NextWrap]_vars

(***************************************************************************)
(* The end-to-end scenario: a fresh Layout, the title "Report", then one   *)
(* paragraph of 250 characters of plain ASCII text at wrap width 98        *)
(***************************************************************************)
\* the longest word of a scenario text
MaxWordLen == 250

\* 250 characters: words of wordLen letters, one space between two words
ScenarioText(wordLen) == [i \in 1..250 |-> IF i % (wordLen + 1) = 0 /\ i < 250 THEN " " ELSE "a"]

Report == <<"R","e","p","o","r","t">>

InitScenario ==
  /\ prog = "app_summary" /\ pc = "layout" /\ y = Layout_y /\ objects = <<>>
  /\ commands = <<>> /\ ncalls = 0 /\ lastCall = NoCall /\ content_stream = <<>>
  /\ pdf = <<>> /\ offsets = <<>> /\ xref_pos = 0 /\ made_dirs = FALSE /\ file = NoFile
  /\ err = "none" /\ arg_width = 98 /\ result = <<>> /\ result2 = <<>> /\ EmptyDb
  /\ arg_text \in {ScenarioText(n) : n \in 1..MaxWordLen}

NextScenario ==
  \/ ncalls = 0 /\ add_title(Report)
  \/ ncalls = 1 /\ add_paragraph(arg_text, arg_width)

SpecScenario == InitScenario /\ [][NextScenario]_vars

(***************************************************************************)
(* Reading a produced file back                                            *)
(***************************************************************************)
\* the first index >= from (counted from 1) that holds byte c, 0 when none
\* of the next span bytes does
IndexFrom(buf, from, span, c) ==
  LET hits == {i \in from..(from + span) : i <= Len(buf) /\ buf[i] = c}
  IN IF hits = {} THEN 0 ELSE CHOOSE i \in hits : \A j \in hits : i <= j

\* the last index <= from (counted from 1) that holds byte c, 0 when none
\* of the span bytes before does
IndexBack(buf, from, span, c) ==
  LET hits == {i \in (from - span)..from : i >= 1 /\ buf[i] = c}
  IN IF hits = {} THEN 0 ELSE CHOOSE i \in hits : \A j \in hits : j <= i

EofMarker == <<"\n","%","%","E","O","F","\n">>

\* the integer a reader finds between "startxref" and "%%EOF", -1 when the
\* file does not end that way
StartXref(buf) ==
  LET e == Len(buf) - Len(EofMarker)
      nl == IndexBack(buf, e, 11, "\n")
  IN IF /\ e >= 1 /\ nl > 9 /\ nl < e
        /\ Sub(buf, e + 1, Len(buf)) = EofMarker
        /\ Sub(buf, nl - 9, nl) = <<"s","t","a","r","t","x","r","e","f","\n">>
        /\ IsDigits(Sub(buf, nl + 1, e))
     THEN ParseInt(Sub(buf, nl + 1, e))
     ELSE -1

\* the index (from 0) of the entry of object 0 in the table at xref
XrefTable(buf, xref) == IndexFrom(buf, xref + 6, 12, "\n")

\* the offset a reader finds for object i in the cross-reference table
XrefOffset(buf, i) ==
  LET entry == Slice(buf, XrefTable(buf, StartXref(buf)) + 20 * i, 20)
  IN IF Len(entry) = 20 /\ IsDigits(Sub(entry, 1, 10)) THEN ParseInt(Sub(entry, 1, 10)) ELSE -1

\* "{i} 0 obj"
ObjHeader(i) == IntStr(i) \o <<" ","0"," ","o","b","j">>

RECURSIVE DigitRunStart(_, _)
\* the first index of the digits that end at index i
DigitRunStart(s, i) == IF i > 1 /\ IsDigits(<<s[i - 1]>>) THEN DigitRunStart(s, i - 1) ELSE i

\* the ids of the references "{id} 0 R" in a dictionary
RefsIn(body) ==
  {ParseInt(Sub(body, DigitRunStart(body, p - 1), p - 1)) :
     p \in {q \in 2..Len(body) : Sub(body, q, q + 3) = <<" ","0"," ","R">> /\ IsDigits(<<body[q - 1]>>)}}

\* the programs that generate a document
Generates == prog \in {"app_summary", "engine_vergleich"}

\* the bottom-margin threshold of the running program, in tenths
Threshold == IF prog = "app_summary" THEN 420 ELSE 380

(***************************************************************************)
(* C1.  As claimed: for every generated file, whatever the list of object  *)
(* bodies, the byte offset recorded for object i in the cross-reference    *)
(* table equals the byte index of the string "{i} 0 obj" in the produced   *)
(* file (the index at which a search for the string finds it), for every i *)
(* from 1 to the object count.  build_pdf([b"2 0 obj", b"x"]) refutes      *)
(* that: the search finds the string in the body of object 1.              *)
(***************************************************************************)
C1_Original_OffsetIsIndexOfHeader ==
  pdf # <<>> =>
    \A i \in 1..Len(objects) : IsFirstIndex(pdf, ObjHeader(i), XrefOffset(pdf, i))

\* whether sub occurs in body
Contains(body, sub) == \E k \in 0..(Len(body) - Len(sub)) : Slice(body, k, Len(sub)) = sub

(***************************************************************************)
(* C1, amended.  In every produced file and for every i from 1 to the      *)
(* object count, the entry read back from the cross-reference table is the *)
(* offset the serializer recorded and the header "{i} 0 obj" of object i   *)
(* stands at that index; it is the first place where the string occurs     *)
(* when no earlier object's body contains the string, which is so in every *)
(* document the two programs generate.                                     *)
(***************************************************************************)
C1_XrefOffsetsPointAtObjects ==
  pdf # <<>> =>
    \A i \in 1..Len(objects) :
      \A off \in {XrefOffset(pdf, i)} :
         /\ off = offsets[i + 1]
         /\ Slice(pdf, off, Len(ObjHeader(i))) = ObjHeader(i)
         /\ (Generates \/ \A j \in 1..(i - 1) : ~Contains(objects[j], ObjHeader(i)))
              => IsFirstIndex(pdf, ObjHeader(i), off)

C1_Witness ==
  /\ prog = "engine_vergleich" /\ pc = "done" /\ file = pdf /\ ncalls = MaxCalls
  /\ XrefOffset(file, 6) > XrefOffset(file, 5)
  /\ IsFirstIndex(file, ObjHeader(6), XrefOffset(file, 6))

(***************************************************************************)
(* C2.  The /Length value embedded in the content-stream object (object 6) *)
(* equals the byte count of the payload between the stream and endstream   *)
(* delimiters, and that payload is the content stream.                     *)
(***************************************************************************)
StreamMark == <<" ",">",">","\n","s","t","r","e","a","m","\n">>

C2_LengthIsPayloadByteCount ==
  (Generates /\ objects # <<>>) =>
    LET body == objects[6]
        sp == IndexFrom(body, 12, 11, " ")
        first == sp + Len(StreamMark)
        last == Len(body) - 9
    IN /\ Sub(body, 1, 11) = <<"<","<"," ","/","L","e","n","g","t","h"," ">>
       /\ sp > 12
       /\ IsDigits(Sub(body, 12, sp - 1))
       /\ Sub(body, sp, first - 1) = StreamMark
       /\ Sub(body, last + 1, Len(body)) = <<"e","n","d","s","t","r","e","a","m">>
       /\ ParseInt(Sub(body, 12, sp - 1)) = last - first + 1
       /\ Sub(body, first, last) = content_stream

\* a payload built from text outside ASCII: a Latin-1 byte and a placeholder
C2_Witness ==
  /\ Generates /\ objects # <<>>
  /\ \E i \in 1..Len(content_stream) : content_stream[i] = "xE9"
  /\ \E i \in 1..Len(content_stream) : content_stream[i] = "?"
  /\ Len(objects[6]) > Len(content_stream)

(***************************************************************************)
(* C3.  After any sequence of placement calls, checkFit does not raise     *)
(* when the cursor is at or above the bottom-margin threshold (42.0 in     *)
(* Layout, 38.0 in Page; a cursor on the threshold fits) and raises        *)
(* when it is below; checkFit changes neither the cursor nor the emitted   *)
(* instructions.                                                           *)
(***************************************************************************)
C3_CheckFitRaisesIffBelowThreshold ==
  [][(Generates /\ pc = "layout" /\ pc' # "layout") =>
       /\ y >= Threshold => (pc' = "checked" /\ err' = "none")
       /\ y < Threshold => (pc' = "failed" /\ err' = "RuntimeError")
       /\ y' = y
       /\ commands' = commands]_vars

\* checkFit has returned with the cursor exactly on the threshold
C3_Witness == prog = "app_summary" /\ pc = "checked" /\ y = 420 /\ ncalls = 3

C7_XrefTableAndTrailer ==
  pdf # <<>> =>
    LET N == Len(objects)
        sx == StartXref(pdf)
        head == <<"x","r","e","f","\n","0"," ">> \o IntStr(N + 1) \o <<"\n">>
        tbl == sx + Len(head)
        trailer == <<"t","r","a","i","l","e","r","\n","<","<"," ","/","S","i","z","e"," ">> \o IntStr(N + 1) \o <<" ","/","R","o","o","t"," ","1"," ","0"," ","R"," ",">",">","\n","s","t","a","r","t","x","r","e","f","\n">>
    IN /\ sx >= Len(PdfHeader)
       /\ Slice(pdf, sx, Len(head)) = head
       /\ N = 0 => sx = Len(PdfHeader)
       /\ N > 0 => /\ Slice(pdf, sx - 8, 8) = <<"\n","e","n","d","o","b","j","\n">>
                   /\ sx = offsets[N + 1] + Len(ObjHeader(N)) + 1 + Len(objects[N]) + 8
       /\ Slice(pdf, tbl, 20) = <<"0","0","0","0","0","0","0","0","0","0"," ","6","5","5","3","5"," ","f"," ","\n">>
       /\ \A k \in 1..N :
            LET entry == Slice(pdf, tbl + 20 * k, 20)
            IN /\ IsDigits(Sub(entry, 1, 10))
               /\ Sub(entry, 11, 20) = <<" ","0","0","0","0","0"," ","n"," ","\n">>
               /\ ParseInt(Sub(entry, 1, 10)) = offsets[k + 1]
               /\ Slice(pdf, offsets[k + 1], Len(ObjHeader(k)) + 1) = ObjHeader(k) \o <<"\n">>
       /\ Slice(pdf, tbl + 20 * (N + 1), Len(trailer)) = trailer
       /\ Len(pdf) = tbl + 20 * (N + 1) + Len(trailer) + Len(IntStr(sx)) + Len(EofMarker)

\* a file of three objects from build_pdf, and its table read back
C7_Witness ==
  /\ prog = "build_pdf" /\ pc = "returned" /\ Len(objects) = 3
  /\ StartXref(pdf) = xref_pos /\ XrefOffset(pdf, 3) = offsets[4]
  /\ XrefOffset(pdf, 4) = -1

(***************************************************************************)
(* C5.  For all text inputs containing backslash or parentheses, the       *)
(* escaper's output, read back by reversing the escaping, is the original  *)
(* text; and in the output every parenthesis is preceded by an escaping    *)
(* backslash that is not itself escaped.                                   *)
(***************************************************************************)
RECURSIVE Unescape(_)
\* a literal string read back: a backslash stands for the character after it
Unescape(s) ==
  IF s = <<>> THEN <<>>
  ELSE IF Head(s) = BS /\ Len(s) >= 2 THEN <<s[2]>> \o Unescape(SubSeq(s, 3, Len(s)))
  ELSE <<Head(s)>> \o Unescape(Tail(s))

RECURSIVE BackslashesBefore(_, _)
\* how many backslashes stand in a row right before index i
BackslashesBefore(s, i) == IF i > 1 /\ s[i - 1] = BS THEN 1 + BackslashesBefore(s, i - 1) ELSE 0

Escaped(out, text) ==
  /\ Unescape(out) = text
  /\ \A i \in 1..Len(out) : out[i] \in {"(", ")"} => BackslashesBefore(out, i) % 2 = 1
  /\ BackslashesBefore(out, Len(out) + 1) % 2 = 0

C5_EscapeRoundTrip ==
  /\ pc \in {"escaped", "returned"} => Escaped(result, arg_text)
  /\ pc = "returned" => Escaped(result2, arg_text)

\* a backslash right before a parenthesis, and a closing parenthesis
C5_Witness ==
  /\ pc = "returned" /\ arg_text = <<BS, "(", "a", ")">>
  /\ result = <<BS, BS, BS, "(", "a", BS, ")">> /\ result2 = result

(***************************************************************************)
(* C6.  Word-wrap idempotence.  As claimed: for every text and width W,    *)
(* wrapping the lines of a wrap at W, joined by spaces, at W again yields  *)
(* the same lines.  As amended: it does when the text has no tab, no two     *)
(* whitespace characters in a row and no word longer than W.               *)
(***************************************************************************)
C6_Original_WrapIdempotent == pc = "rewrapped" => result2 = result

\* no two whitespace characters in a row
SingleSpaced(text) == \A i \in 1..(Len(text) - 1) : ~(IsWs(text[i]) /\ IsWs(text[i + 1]))

\* no run of more than width characters without whitespace
WordsFit(text, width) ==
  \A i \in 1..(Len(text) - width) : \E j \in i..(i + width) : IsWs(text[j])

C6_WrapIdempotentOnSingleSpacedText ==
  (pc = "rewrapped" /\ SingleSpaced(arg_text) /\ WordsFit(arg_text, arg_width)) => result2 = result

\* a text of several words that wraps to several lines
C6_Witness ==
  /\ pc = "rewrapped" /\ SingleSpaced(arg_text) /\ WordsFit(arg_text, arg_width)
  /\ Len(result) >= 2 /\ result2 = result
  /\ \E i \in 1..Len(result) : \E j \in 1..Len(result[i]) : result[i][j] = " "

(***************************************************************************)
(* C8.  The cursor moves monotonically downward: every placement call      *)
(* leaves y strictly lower than before the call (also for empty text, an   *)
(* empty item list, or items that wrap to nothing), and no operation ever  *)
(* raises y.                                                               *)
(***************************************************************************)
C8_CursorMovesDown == [][(ncalls' # ncalls => y' < y) /\ y' <= y]_vars

\* a paragraph of empty text was placed: no instruction, the cursor lower
C8_Witness ==
  /\ Generates /\ ncalls = 1 /\ lastCall.op \in {"add_paragraph", "p"} /\ lastCall.text = <<>>
  /\ commands = <<>> /\ y < (IF prog = "app_summary" THEN Layout_y ELSE Page_y)

CommandText(cmd) ==
  LET open == CHOOSE i \in 1..Len(cmd) : Sub(cmd, i, i + 4) = <<" ","T","m"," ","(">>
                                          /\ \A j \in 1..(i - 1) : Sub(cmd, j, j + 4) # <<" ","T","m"," ","(">>
  IN Sub(cmd, open + 5, Len(cmd) - 7)

\* a text without its spaces
Letters(text) == Concat([i \in 1..Len(text) |-> IF text[i] = " " THEN <<>> ELSE <<text[i]>>])

\* what stands before the text of a command: font, size and position
CommandHead(cmd) == Sub(cmd, 1, Len(cmd) - Len(CommandText(cmd)) - 7)

TrailerOf(buf) == Sub(buf, XrefTable(buf, StartXref(buf)) + 20 * 7 + 1, Len(buf))

C10_SixObjectShape ==
  (Generates /\ objects # <<>>) =>
    /\ Len(objects) = 6
    /\ objects[1] = <<"<","<"," ","/","T","y","p","e"," ","/","C","a","t","a","l","o","g"," ","/","P","a","g","e","s"," ","2"," ","0"," ","R"," ",">",">">>
    /\ objects[2] = <<"<","<"," ","/","T","y","p","e"," ","/","P","a","g","e","s"," ","/","K","i","d","s"," ","[","3"," ","0"," ","R","]"," ","/","C","o","u","n","t"," ","1"," ",">",">">>
    /\ Sub(objects[3], 1, 31) = <<"<","<"," ","/","T","y","p","e"," ","/","P","a","g","e"," ","/","P","a","r","e","n","t"," ","2"," ","0"," ","R"," ","/","M">>
    /\ RefsIn(objects[3]) = {2, 4, 5, 6}
    /\ \E i \in 1..Len(objects[3]) : Sub(objects[3], i, i + 9) = <<"/","F","1"," ","4"," ","0"," ","R"," ">>
    /\ \E i \in 1..Len(objects[3]) : Sub(objects[3], i, i + 9) = <<"/","F","2"," ","5"," ","0"," ","R"," ">>
    /\ \E i \in 1..Len(objects[3]) : Sub(objects[3], i, i + 15) = <<"/","C","o","n","t","e","n","t","s"," ","6"," ","0"," ","R"," ">>
    /\ \A i \in {4, 5} : RefsIn(objects[i]) = {} /\ Sub(objects[i], 1, 14) = <<"<","<"," ","/","T","y","p","e"," ","/","F","o","n","t">>
    /\ Sub(objects[6], 1, 11) = <<"<","<"," ","/","L","e","n","g","t","h"," ">>
    /\ Sub(objects[6], Len(objects[6]) - 9 - Len(content_stream), Len(objects[6]))
         = <<"\n">> \o content_stream \o <<"e","n","d","s","t","r","e","a","m">>
    /\ \A i \in 1..5 : RefsIn(objects[i]) \subseteq 1..6
    /\ pdf # <<>> =>
         /\ Len(offsets) = 7
         /\ \A i \in 1..6 :
              Slice(pdf, offsets[i + 1], Len(ObjHeader(i)) + Len(objects[i]) + 9)
                = ObjHeader(i) \o <<"\n">> \o objects[i] \o <<"\n","e","n","d","o","b","j","\n">>
         /\ offsets[2] = Len(PdfHeader)
         /\ \A i \in 1..5 : offsets[i + 2] = offsets[i + 1] + Len(ObjHeader(i)) + Len(objects[i]) + 9
         /\ StartXref(pdf) = offsets[7] + Len(ObjHeader(6)) + Len(objects[6]) + 9
         /\ Sub(TrailerOf(pdf), 1, 34) = <<"t","r","a","i","l","e","r","\n","<","<"," ","/","S","i","z","e"," ","7"," ","/","R","o","o","t"," ","1"," ","0"," ","R"," ",">",">","\n">>

\* a written document made of a title and a bullet list
C10_Witness ==
  /\ prog = "app_summary" /\ pc = "done" /\ file = pdf /\ ncalls = 2
  /\ lastCall.op = "add_bullets" /\ Len(lastCall.items) = 4 /\ Len(commands) > 2
  /\ Len(objects) = 6


(***************************************************************************)
(* C11.  As claimed: in the word wrap of addParagraph and addBullets a     *)
(* single word longer than wrapWidth is placed on its own line: it is      *)
(* emitted whole, as one line containing only that word, and is not split  *)
(* across lines.                                                           *)
(***************************************************************************)
\* the words of a text: its longest runs without a space, as index pairs
WordRuns(text) ==
  {<<s, e>> \in (1..Len(text)) \X (1..Len(text)) :
     /\ s <= e
     /\ \A i \in s..e : text[i] # " "
     /\ At(text, s - 1) \in {"", " "}
     /\ At(text, e + 1) \in {"", " "}}

C11_Original_LongWordOnOwnLine ==
  pc = "wrapped" =>
    \A w \in WordRuns(arg_text) :
      w[2] - w[1] + 1 > arg_width =>
        \E k \in 1..Len(result) : result[k] = SubSeq(arg_text, w[1], w[2])

(***************************************************************************)
(* C11, amended.  A word longer than wrapWidth is split across lines: no   *)
(* line is longer than wrapWidth, so no line holds such a word whole, and  *)
(* the lines in order spell the text without its spaces.                   *)
(***************************************************************************)
C11_LongWordIsSplit ==
  pc = "wrapped" =>
    /\ \A k \in 1..Len(result) : Len(result[k]) >= 1 /\ Len(result[k]) <= arg_width
    /\ Letters(Concat(result)) = Letters(arg_text)
    /\ \A w \in WordRuns(arg_text) :
         w[2] - w[1] + 1 > arg_width =>
           \A k \in 1..Len(result) : result[k] # SubSeq(arg_text, w[1], w[2])

\* a short word, then a word longer than the width: its first letter
\* goes to the first line, the rest to the second
C11_Witness ==
  /\ pc = "wrapped" /\ arg_width = 3
  /\ arg_text = <<"a"," ","a","a","a","a">>
  /\ result = <<<<"a"," ","a">>, <<"a","a","a">>>>

(***************************************************************************)
(* C12.  checkFit is not invoked by the placements: no placement raises or *)
(* rejects content, whatever the cursor (it appends its instructions and   *)
(* the run stays in the layout with no error); once the cursor is below    *)
(* the bottom-margin threshold it stays below, and the step that leaves    *)
(* the layout, the explicit checkFit, then raises.  The witness is a run   *)
(* in which a title was placed with the cursor already below the threshold *)
(* and the check made afterwards raised.                                   *)
(***************************************************************************)
C12_OverflowOnlyAtExplicitCheck ==
  [][Generates =>
       /\ ncalls' # ncalls =>
            /\ pc = "layout" /\ pc' = "layout" /\ err' = "none"
            /\ Len(commands') >= Len(commands)
            /\ SubSeq(commands', 1, Len(commands)) = commands
       /\ (pc = "layout" /\ y < Threshold) =>
            /\ y' < Threshold
            /\ pc' # "layout" => (pc' = "failed" /\ err' = "RuntimeError" /\ commands' = commands)
       /\ err' = "RuntimeError" /\ err = "none" => (pc = "layout" /\ ncalls' = ncalls)]_vars

C12_Witness ==
  /\ prog = "app_summary" /\ pc = "failed" /\ err = "RuntimeError"
  /\ ncalls = 3 /\ lastCall.op = "add_title"
  /\ y + 200 < Threshold
  /\ Len(commands) > 2

(***************************************************************************)
(* C13.  Building the content-stream payload never fails because of an     *)
(* input character: the step after the fit check always yields a payload   *)
(* and no error; a character outside Latin-1 becomes the one byte "?", a   *)
(* character of Latin-1 its one byte, so the payload has as many bytes as  *)
(* the joined instruction text (the instructions, a line feed after each;  *)
(* one line feed for no instruction) has characters.                       *)
(***************************************************************************)
C13_PayloadOneBytePerCharacter ==
  Generates =>
    /\ pc \in {"streamed", "objs", "built", "dirs", "done"} => content_stream # <<>>
    /\ pc = "streamed" => err = "none"
    /\ content_stream # <<>> =>
         \A joined \in {Join(<<"\n">>, commands) \o <<"\n">>} :
            /\ Len(content_stream)
                 = Len(Concat(commands)) + (IF commands = <<>> THEN 1 ELSE Len(commands))
            /\ Len(joined) = Len(content_stream)
            /\ content_stream
                 = [i \in 1..Len(joined) |->
                      IF joined[i] = "U+65E5" THEN "?"
                      ELSE IF joined[i] = "U+00E9" THEN "xE9"
                      ELSE joined[i]]

\* a payload built from a text with a letter of Latin-1 and a letter outside it
C13_Witness ==
  /\ prog = "engine_vergleich" /\ pc = "streamed"
  /\ \E k \in 1..Len(commands) : \E i \in 1..Len(commands[k]) : commands[k][i] = "U+65E5"
  /\ \E i \in 1..Len(content_stream) : content_stream[i] = "?"
  /\ \E i \in 1..Len(content_stream) : content_stream[i] = "xE9"

(***************************************************************************)
(* C14.  addBullets(items, wrapWidth) appends as many instructions as the  *)
(* items have wrapped lines in all; the first wrapped line of each item    *)
(* carries the marker "- " at the base left margin, each continuation line *)
(* stands at the indented x (left + 12.0 in Layout, left + 10.0 in Page),  *)
(* each line one body leading below the one before; the cursor descends by *)
(* exactly (total wrapped lines) * bodyLeading plus one trailing gap; an   *)
(* item that wraps to nothing adds no instruction and no descent.          *)
(***************************************************************************)
\* the wrapped lines of all items in order, each with whether it is the
\* first line of its item
BulletLines(items, width) ==
  Concat([i \in 1..Len(items) |->
            LET w == wrap(items[i], width)
            IN [j \in 1..Len(w) |-> [first |-> j = 1, line |-> w[j]]]])

C14_BulletsOneInstructionPerWrappedLine ==
  [][(ncalls' = ncalls + 1 /\ lastCall'.op \in {"add_bullets", "b"}) =>
       LET app == prog = "app_summary"
           left == IF app THEN 540 ELSE 420
           indent == IF app THEN 120 ELSE 100
           leading == IF app THEN 120 ELSE 106
           gap == IF app THEN 40 ELSE 20
           font == IF app THEN <<"B","T"," ","/","F","1"," ","1","0",".","0"," ","T","f"," ","1"," ","0"," ","0"," ","1"," ">> ELSE <<"B","T"," ","/","F","1"," ","9",".","2"," ","T","f"," ","1"," ","0"," ","0"," ","1"," ">>
           n == Len(commands)
       IN \A flat \in {BulletLines(lastCall'.items, lastCall'.width)} :
            /\ Len(commands') = n + Len(flat)
            /\ SubSeq(commands', 1, n) = commands
            /\ y' = y - leading * Len(flat) - gap
            /\ \A k \in 1..Len(flat) :
                 \A text \in {CommandText(commands'[n + k])} :
                   /\ SubSeq(commands'[n + k], 1, Len(commands'[n + k]) - Len(text) - 7)
                        = font \o Fmt2f(IF flat[k].first THEN left ELSE left + indent)
                            \o <<" ">> \o Fmt2f(y - leading * (k - 1)) \o <<" ","T","m"," ","(">>
                   /\ Unescape(text) = (IF flat[k].first THEN <<"-"," ">> ELSE <<>>) \o flat[k].line
            /\ flat = <<>> => (commands' = commands /\ y' = y - gap)]_vars

\* a bullet list with items that wrap to nothing and items of several lines
C14_Witness ==
  /\ prog = "engine_vergleich" /\ lastCall.op = "b" /\ ncalls = 1
  /\ Len(lastCall.items) = 4 /\ lastCall.items[1] = <<>> /\ lastCall.width = 5
  /\ Len(commands) = Len(BulletLines(lastCall.items, 5))
  /\ Len(commands) > 3
  /\ y = 7700 - 106 * Len(commands) - 20

(***************************************************************************)
(* C15.  As claimed: for text whose words are each at most wrapWidth       *)
(* characters the wrap is the standard greedy line-breaking: the words     *)
(* appear in the lines in their original order with none dropped or        *)
(* duplicated, every line has at most wrapWidth characters, and for every  *)
(* pair of consecutive lines, appending a space and the first word of the  *)
(* next line to the earlier line would exceed wrapWidth.                   *)
(***************************************************************************)
\* the words of a text in order
WordsOf(text) ==
  LET runs == WordRuns(text)
  IN [k \in 1..Cardinality(runs) |->
        LET r == CHOOSE r \in runs : Cardinality({q \in runs : q[1] < r[1]}) = k - 1
        IN SubSeq(text, r[1], r[2])]

\* the lines hold the words of the text, and each line is as full as the
\* words allow
GreedyLines(text, lines, width) ==
  /\ WordsOf(Join(<<" ">>, lines)) = WordsOf(text)
  /\ \A k \in 1..Len(lines) : Len(lines[k]) <= width
  /\ \A k \in 1..(Len(lines) - 1) :
       /\ WordsOf(lines[k + 1]) # <<>>
       /\ Len(lines[k]) + 1 + Len(WordsOf(lines[k + 1])[1]) > width

C15_Original_GreedyWrap ==
  (pc = "wrapped" /\ WordsFit(arg_text, arg_width)) => GreedyLines(arg_text, result, arg_width)

(***************************************************************************)
(* C15, amended.  The same, for text whose words are each at most          *)
(* wrapWidth characters, are separated by single spaces and hold no        *)
(* hyphen.                                                                 *)
(***************************************************************************)
NoHyphen(text) == \A i \in 1..Len(text) : text[i] # "-"

C15_GreedyWrapOfSingleSpacedWords ==
  (pc = "wrapped" /\ WordsFit(arg_text, arg_width) /\ SingleSpaced(arg_text) /\ NoHyphen(arg_text))
    => GreedyLines(arg_text, result, arg_width)

\* three words on two lines
C15_Witness ==
  /\ pc = "wrapped" /\ arg_width = 4
  /\ arg_text = <<"a"," ","a","a"," ","a">>
  /\ result = <<<<"a"," ","a","a">>, <<"a">>>>

(***************************************************************************)
(* C16.  The two serializer copies are the same serializer: the bytes that *)
(* build_pdf returns for a list of object bodies are the bytes write_pdf   *)
(* writes when its six objects are that list, with the same per-object     *)
(* offsets and the same cross-reference position.  For the app summary,    *)
(* build_pdf on the objects of write_pdf gives write_pdf's buffer; for the *)
(* engine report, write_pdf on the stream gives the objects of main and    *)
(* the bytes build_pdf returned; for a list given to build_pdf directly,   *)
(* the loop and the trailer code of write_pdf give the same bytes.         *)
(***************************************************************************)
C16_SerializersAgree ==
  pdf # <<>> =>
    LET here == [objects |-> objects, pdf |-> pdf, offsets |-> offsets, xref_pos |-> xref_pos]
    IN /\ prog = "app_summary" => build_pdf(objects) = here
       /\ prog = "engine_vergleich" => write_pdf_buffer(content_stream) = here
       /\ prog = "build_pdf" =>
            \A body \in {write_pdf_loop(PdfHeader, <<0>>, 1, objects)} :
              /\ body.offsets = offsets
              /\ xref_and_trailer(body.pdf, body.offsets, Len(objects))
                   = [pdf |-> pdf, xref_pos |-> xref_pos]
       /\ (pc = "done" /\ Generates) => file = pdf

\* the engine report written to its file, with text on the page
C16_Witness ==
  /\ prog = "engine_vergleich" /\ pc = "done" /\ file = pdf /\ Len(commands) >= 2
  /\ write_pdf_buffer(content_stream).pdf = file

(***************************************************************************)
(* database_handler.py: the watch list and the buy list, one connection    *)
(***************************************************************************)
\* calls made on the connection
MaxDbCalls == 4

\* SQLite values: NULL, a text, an integer (v: its digits)
SqlNull == [t |-> "null", v |-> ""]

SqlText(s) == [t |-> "text", v |-> s]

SqlInteger(s) == [t |-> "integer", v |-> s]

\* titles a caller passes: two texts, the integer 1, None
Titles == {SqlText("A"), SqlText("1"), SqlInteger("1"), SqlNull}

CoverUrls == {SqlNull, SqlText("u")}

\* list names a caller passes to remove_anime_from_list; wish_list is no table
ListNames == {"watch_list", "buy_list", "wish_list"}

\* a value stored in, or compared with, a column declared TEXT: an integer
\* becomes its text
text_affinity(val) == IF val.t = "integer" THEN SqlText(val.v) ELSE val

\* "title = ?": NULL equals nothing
sql_eq(a, b) == a.t # "null" /\ b.t # "null" /\ a = b

Table(list_name) == IF list_name = "watch_list" THEN watch_list ELSE buy_list

\* a mutant: the watch list is looked up whatever the list named
check_anime_exists_watch(title, list_name) ==
  \E i \in 1..Len(watch_list) : sql_eq(watch_list[i].title, text_affinity(title))

check_anime_exists(title, list_name) ==
  \E i \in 1..Len(Table(list_name)) : sql_eq(Table(list_name)[i].title, text_affinity(title))

\* INSERT INTO t (title, cover_url) VALUES (?, ?), id INTEGER PRIMARY KEY
\* AUTOINCREMENT: the row added to a table whose largest id so far is seq
insert_row(table, seq, title, cover_url) ==
  Append(table, [id |-> seq + 1, title |-> text_affinity(title), cover_url |-> text_affinity(cover_url)])

\* DELETE FROM t WHERE title = ?
delete_rows(table, title) ==
  SelectSeq(table, LAMBDA r : ~sql_eq(r.title, text_affinity(title)))

InitDb ==
  /\ prog = "database" /\ pc = "connected" /\ y = 0 /\ objects = <<>>
  /\ commands = <<>> /\ ncalls = 0 /\ lastCall = NoCall /\ content_stream = <<>>
  /\ pdf = <<>> /\ offsets = <<>> /\ xref_pos = 0 /\ made_dirs = FALSE /\ file = NoFile
  /\ err = "none" /\ arg_text = <<>> /\ arg_width = 0 /\ result = <<>> /\ result2 = <<>>
  /\ EmptyDb

DbCall(op, title, list_name) ==
  /\ prog = "database" /\ db_calls < MaxDbCalls
  /\ db_calls' = db_calls + 1
  /\ db_call' = [op |-> op, title |-> title, list_name |-> list_name]
  /\ UNCHANGED <<prog, pc, layoutVars, serialVars, fsVars, pureVars>>

add_anime_to_watch_list(title, cover_url) ==
  /\ DbCall("add_anime_to_watch_list", title, "watch_list")
  /\ IF ~check_anime_exists(title, "watch_list")
     THEN IF title.t = "null"
          THEN \* NOT NULL constraint failed
               err' = "IntegrityError" /\ UNCHANGED <<watch_list, watch_seq>>
          ELSE /\ watch_list' = insert_row(watch_list, watch_seq, title, cover_url)
               /\ watch_seq' = watch_seq + 1
               /\ err' = "none"
     ELSE err' = "ValueError" /\ UNCHANGED <<watch_list, watch_seq>>
  /\ UNCHANGED <<buy_list, buy_seq>>

add_anime_to_buy_list(title, cover_url) ==
  /\ DbCall("add_anime_to_buy_list", title, "buy_list")
  /\ IF ~check_anime_exists(title, "buy_list")
     THEN IF title.t = "null"
          THEN err' = "IntegrityError" /\ UNCHANGED <<buy_list, buy_seq>>
          ELSE /\ buy_list' = insert_row(buy_list, buy_seq, title, cover_url)
               /\ buy_seq' = buy_seq + 1
               /\ err' = "none"
     ELSE err' = "ValueError" /\ UNCHANGED <<buy_list, buy_seq>>
  /\ UNCHANGED <<watch_list, watch_seq>>

remove_anime_from_list(title, list_name) ==
  /\ DbCall("remove_anime_from_list", title, list_name)
  /\ CASE list_name = "watch_list" ->
            /\ watch_list' = delete_rows(watch_list, title)
            /\ err' = "none"
            /\ UNCHANGED <<buy_list, watch_seq, buy_seq>>
       [] list_name = "buy_list" ->
            /\ buy_list' = delete_rows(buy_list, title)
            /\ err' = "none"
            /\ UNCHANGED <<watch_list, watch_seq, buy_seq>>
       [] OTHER -> \* no such table
            err' = "OperationalError" /\ UNCHANGED <<watch_list, buy_list, watch_seq, buy_seq>>

NextDb ==
  \/ \E title \in Titles, cover_url \in CoverUrls : add_anime_to_watch_list(title, cover_url)
  \/ \E title \in Titles, cover_url \in CoverUrls : add_anime_to_buy_list(title, cover_url)
  \/ \E title \in Titles, list_name \in ListNames : remove_anime_from_list(title, list_name)

SpecDb == InitDb /\ [][NextDb]_vars

(***************************************************************************)
(* C17.  Starting from empty tables and using one connection, after any    *)
(* sequence of add_anime_to_watch_list, add_anime_to_buy_list and          *)
(* remove_anime_from_list calls no title occurs more than once in either   *)
(* table: adding a title that is already in the target list raises         *)
(* ValueError and leaves both tables unchanged, adding to one list never   *)
(* changes the other, and remove_anime_from_list leaves no row with that   *)
(* title in the named list.                                                *)
(***************************************************************************)
\* no two rows of the table hold the same title
NoTitleTwice(table) ==
  \A i, j \in 1..Len(table) : table[i].title = table[j].title => i = j

\* the title is the title of a row, as a reader comparing values sees it
HasTitle(table, title) ==
  \E i \in 1..Len(table) :
    table[i].title.t = "text" /\ title.t # "null" /\ table[i].title.v = title.v

C17_NoTitleTwice ==
  [][db_calls' # db_calls =>
       /\ NoTitleTwice(watch_list') /\ NoTitleTwice(buy_list')
       /\ (db_call'.op \in {"add_anime_to_watch_list", "add_anime_to_buy_list"}
             /\ HasTitle(Table(db_call'.list_name), db_call'.title)) =>
            (err' = "ValueError" /\ watch_list' = watch_list /\ buy_list' = buy_list)
       /\ err' = "ValueError" => HasTitle(Table(db_call'.list_name), db_call'.title)
       /\ db_call'.op = "add_anime_to_watch_list" => buy_list' = buy_list
       /\ db_call'.op = "add_anime_to_buy_list" => watch_list' = watch_list
       /\ (db_call'.op = "remove_anime_from_list" /\ db_call'.list_name = "watch_list") =>
            (~HasTitle(watch_list', db_call'.title) /\ buy_list' = buy_list)
       /\ (db_call'.op = "remove_anime_from_list" /\ db_call'.list_name = "buy_list") =>
            (~HasTitle(buy_list', db_call'.title) /\ watch_list' = watch_list)]_vars

\* the text "1" is in both lists, and adding the integer 1 to the watch
\* list was refused
C17_Witness ==
  /\ prog = "database" /\ db_calls = 3 /\ err = "ValueError"
  /\ db_call.op = "add_anime_to_watch_list" /\ db_call.title = SqlInteger("1")
  /\ Len(watch_list) = 1 /\ watch_list[1].title = SqlText("1")
  /\ Len(buy_list) = 1 /\ buy_list[1].title = SqlText("1")
====
